---- MODULE Spec2Model ----
(***************************************************************************)
(* A model of ain's template lexer (package parse, Tokenize) and of the    *)
(* concurrent executable runner (package sections, callExecutables).       *)
(*                                                                         *)
(* Go strings are modelled as sequences of one-character strings.  The     *)
(* backtick, which the TLA+ lexer treats specially inside a string, is     *)
(* written Backtick == "BT"; every other character is itself.  The model   *)
(* is restricted to one-byte characters, so rune and byte offsets agree.   *)
(***************************************************************************)
EXTENDS Naturals, Integers, Sequences, FiniteSets, TLC

\* ------------------------------------------------------------------ bounds

\* Longest body of an input line (the line may add a reference prefix and a
\* closing parenthesis around the body, see Inputs).
MaxLen == 3

\* Longest request list given to callExecutables.
MaxRequests == 2

\* The lines of one section of the templates scanned for references.
MaxLines == 2

\* The headers of the call data handed to the backend.
MaxHeaders == 2

\* The fatals one template resolution returns.
MaxFatals == 2

\* ------------------------------------------------------------ characters

Backtick == "BT"
Backslash == "\\"
DoubleQuote == "\""
SingleQuote == "'"

commentPrefix == <<"#">>
envVarPrefix == <<"$", "{">>
executablePrefix == <<"$", "(">>

errorToken == 0
commentToken == 1
textToken == 2
executableToken == 3
envVarToken == 4

\* data.TimeoutNotSet, the value of config.Timeout when no timeout is
\* configured.
TimeoutNotSet == -1

\* The zero value of a Go rune variable (var executableQuoteRune rune).
NoRune == "NUL"

\* --------------------------------------------------- package strings (Go)

HasPrefix(s, p) ==
  Len(p) <= Len(s) /\ SubSeq(s, 1, Len(p)) = p

HasSuffix(s, p) ==
  Len(p) <= Len(s) /\ SubSeq(s, Len(s) - Len(p) + 1, Len(s)) = p

TrimSuffix(s, p) ==
  IF HasSuffix(s, p) THEN SubSeq(s, 1, Len(s) - Len(p)) ELSE s

\* s[from:] and s[:to] with Go's zero-based offsets.
SliceFrom(s, from) == SubSeq(s, from + 1, Len(s))
SliceTo(s, to) == SubSeq(s, 1, to)

\* strings.ReplaceAll for a non-empty old: the non-overlapping instances of
\* old are replaced from left to right, in one pass.
RECURSIVE ReplaceAll(_, _, _)
ReplaceAll(s, old, new) ==
  IF Len(s) = 0 THEN <<>>
  ELSE IF HasPrefix(s, old) THEN new \o ReplaceAll(SliceFrom(s, Len(old)), old, new)
  ELSE <<Head(s)>> \o ReplaceAll(Tail(s), old, new)

\* --------------------------------------------------------------- the lexer

token(tt, c, fc) == [tokenType |-> tt, content |-> c, fatalContent |-> fc]

EscapedBacktick == <<Backslash, Backtick>>

unescapeTextContent(content, allowed, hasNextToken) ==
  LET c1 == IF allowed >= envVarToken
            THEN ReplaceAll(content, <<Backtick>> \o envVarPrefix, envVarPrefix)
            ELSE content
      c2 == IF allowed >= executableToken
            THEN ReplaceAll(c1, <<Backtick>> \o executablePrefix, executablePrefix)
            ELSE c1
      c3 == ReplaceAll(c2, <<Backtick>> \o commentPrefix, commentPrefix)
  IN IF hasNextToken /\ HasSuffix(c3, EscapedBacktick)
     THEN TrimSuffix(c3, EscapedBacktick) \o <<Backtick>>
     ELSE c3

\* Mutant of isStartOfToken: the escaping backtick is not looked at.
isStartOfTokenUnescaped(tokenTypePrefix, prev, rest) ==
  HasPrefix(rest, tokenTypePrefix)

isStartOfToken(tokenTypePrefix, prev, rest) ==
  /\ HasPrefix(rest, tokenTypePrefix)
  /\ (~HasSuffix(prev, <<Backtick>>) \/ HasSuffix(prev, EscapedBacktick))

\* The local variables of Tokenize as one record; flow says how the loop body
\* was left: "next" (fell through to the following statement), "continue"
\* or "return".
WithFlow(l, f) == [l EXCEPT !.flow = f]

Rest(input, l) == SliceFrom(input, l.idx)
Prev(input, l) == SliceTo(input, l.idx)

\* Mutant of CheckEnvVarStart: the ceiling is not looked at.
CheckEnvVarStartAnyCeiling(l, allowed, prev, rest) ==
  IF isStartOfToken(envVarPrefix, prev, rest)
  THEN [l EXCEPT !.idx = l.idx + Len(envVarPrefix), !.currentTokenType = envVarToken]
  ELSE l

\* Lines 132-137: the EnvVar prefix in Text state.
CheckEnvVarStart(l, allowed, prev, rest) ==
  IF allowed >= envVarToken /\ isStartOfToken(envVarPrefix, prev, rest)
  THEN [l EXCEPT !.idx = l.idx + Len(envVarPrefix), !.currentTokenType = envVarToken]
  ELSE l

\* Lines 139-145: the Executable prefix in Text state.
CheckExecutableStart(l, allowed, prev, rest) ==
  IF allowed >= executableToken /\ isStartOfToken(executablePrefix, prev, rest)
  THEN [l EXCEPT !.executableStartIdx = l.idx,
                 !.idx = l.idx + Len(executablePrefix),
                 !.currentTokenType = executableToken]
  ELSE l

\* Lines 147-152: the Comment prefix in Text state.
CheckCommentStart(l, prev, rest) ==
  IF isStartOfToken(commentPrefix, prev, rest)
  THEN [l EXCEPT !.idx = l.idx + Len(commentPrefix), !.currentTokenType = commentToken]
  ELSE l

\* Mutant of PackUpText: the comment is one token like the others, and the
\* loop goes on in Text state after it.
PackUpTextCommentGoesOn(l, allowed, rest) ==
  LET packed == IF Len(l.currentContent) > 0
                THEN Append(l.result,
                            token(textToken,
                                  unescapeTextContent(l.currentContent, allowed, TRUE),
                                  l.currentContent))
                ELSE l.result
  IN IF l.currentTokenType = commentToken
     THEN [l EXCEPT !.result = Append(packed, token(commentToken, <<>>, commentPrefix)),
                    !.currentTokenType = textToken,
                    !.currentContent = <<>>,
                    !.flow = "continue"]
     ELSE [l EXCEPT !.result = packed, !.currentContent = <<>>, !.flow = "continue"]

\* Mutant of PackUpText: the collected text is packed up even when there
\* is none.
PackUpTextEvenIfEmpty(l, allowed, rest) ==
  LET packed == Append(l.result,
                       token(textToken,
                             unescapeTextContent(l.currentContent, allowed, TRUE),
                             l.currentContent))
  IN IF l.currentTokenType = commentToken
     THEN [l EXCEPT !.result = Append(packed, token(commentToken, <<>>, rest)),
                    !.fatal = <<>>,
                    !.flow = "return"]
     ELSE [l EXCEPT !.result = packed, !.currentContent = <<>>, !.flow = "continue"]

\* Lines 154-176: a token started: pack up the collected text; a comment
\* takes the rest of the line and ends the call.
PackUpText(l, allowed, rest) ==
  LET packed == IF Len(l.currentContent) > 0
                THEN Append(l.result,
                            token(textToken,
                                  unescapeTextContent(l.currentContent, allowed, TRUE),
                                  l.currentContent))
                ELSE l.result
  IN IF l.currentTokenType = commentToken
     THEN [l EXCEPT !.result = Append(packed, token(commentToken, <<>>, rest)),
                    !.fatal = <<>>,
                    !.flow = "return"]
     ELSE [l EXCEPT !.result = packed, !.currentContent = <<>>, !.flow = "continue"]

\* Lines 131-177: the Text state of the loop body.
TextState(l, input, allowed) ==
  LET prev == Prev(input, l)
      rest == Rest(input, l)
      l1 == CheckEnvVarStart(l, allowed, prev, rest)
      l2 == CheckExecutableStart(l1, allowed, prev, rest)
      l3 == CheckCommentStart(l2, prev, rest)
  IN IF l3.currentTokenType # textToken
     THEN PackUpText(l3, allowed, rest)
     ELSE WithFlow(l3, "next")

\* Lines 179-197: an unescaped closing bracket ends the EnvVar token.
EnvVarClose(l) ==
  LET replaced == ReplaceAll(l.currentContent, <<Backtick, "}">>, <<"}">>)
      unescapedContent == IF HasSuffix(replaced, EscapedBacktick)
                          THEN TrimSuffix(replaced, EscapedBacktick) \o <<Backtick>>
                          ELSE replaced
  IN [l EXCEPT !.result = Append(l.result,
                                 token(envVarToken, unescapedContent,
                                       envVarPrefix \o l.currentContent \o <<"}">>)),
               !.currentTokenType = textToken,
               !.currentContent = <<>>,
               !.idx = l.idx + 1,
               !.flow = "continue"]

\* Lines 206-207 and 215-216: unescape the closing parentheses collected
\* since the end of the last quoted region.
UnescapeTillNow(l) ==
  SliceTo(l.currentContent, l.executableQuoteEnd)
    \o ReplaceAll(SliceFrom(l.currentContent, l.executableQuoteEnd),
                  <<Backtick, ")">>, <<")">>)

\* Mutant of QuoteSwitch: either quote character closes the open region.
QuoteSwitchAnyQuoteCloses(l, prev, nextRune) ==
  IF nextRune \in {DoubleQuote, SingleQuote}
  THEN IF l.executableQuoteRune = NoRune
       THEN [l EXCEPT !.executableQuoteRune = nextRune,
                      !.currentContent = UnescapeTillNow(l)]
       ELSE IF ~HasSuffix(prev, <<Backslash>>)
       THEN [l EXCEPT !.executableQuoteRune = NoRune,
                      !.executableQuoteEnd = Len(l.currentContent) - 1]
       ELSE l
  ELSE l

\* Lines 200-212: the quote switch of the Executable state.
QuoteSwitch(l, prev, nextRune) ==
  IF nextRune \in {DoubleQuote, SingleQuote}
  THEN IF l.executableQuoteRune = NoRune
       THEN [l EXCEPT !.executableQuoteRune = nextRune,
                      !.currentContent = UnescapeTillNow(l)]
       ELSE IF ~HasSuffix(prev, <<Backslash>>) /\ l.executableQuoteRune = nextRune
       THEN [l EXCEPT !.executableQuoteRune = NoRune,
                      !.executableQuoteEnd = Len(l.currentContent) - 1]
       ELSE l
  ELSE l

\* Lines 214-234: an unescaped closing parenthesis outside quotes ends the
\* Executable token.
ExecutableClose(l, input) ==
  LET unescaped == UnescapeTillNow(l)
      content == IF HasSuffix(unescaped, EscapedBacktick)
                 THEN TrimSuffix(unescaped, EscapedBacktick) \o <<Backtick>>
                 ELSE unescaped
  IN [l EXCEPT !.executableQuoteEnd = 0,
               !.result = Append(l.result,
                                 token(executableToken, content,
                                       SubSeq(input, l.executableStartIdx + 1, l.idx + 1))),
               !.currentTokenType = textToken,
               !.currentContent = <<>>,
               !.idx = l.idx + 1,
               !.flow = "continue"]

\* Lines 199-235: the Executable state of the loop body.
ExecutableState(l, input) ==
  LET prev == Prev(input, l)
      rest == Rest(input, l)
      l1 == QuoteSwitch(l, prev, Head(rest))
  IN IF l1.executableQuoteRune = NoRune /\ isStartOfToken(<<")">>, prev, rest)
     THEN ExecutableClose(l1, input)
     ELSE WithFlow(l1, "next")

\* Lines 237-238: the rune joins the current content.
AppendRune(l, input) ==
  [l EXCEPT !.currentContent = l.currentContent \o SubSeq(input, l.idx + 1, l.idx + 1),
            !.idx = l.idx + 1,
            !.flow = "continue"]

\* Lines 127-239: one pass through the loop body.
LoopBody(l, input, allowed) ==
  LET a == IF l.currentTokenType = textToken
           THEN TextState(l, input, allowed)
           ELSE WithFlow(l, "next")
      b == IF a.flow = "next" /\ a.currentTokenType = envVarToken
                /\ isStartOfToken(<<"}">>, Prev(input, a), Rest(input, a))
           THEN EnvVarClose(a)
           ELSE a
      c == IF b.flow = "next" /\ b.currentTokenType = executableToken
           THEN ExecutableState(b, input)
           ELSE b
  IN IF c.flow = "next" THEN AppendRune(c, input) ELSE c

MissingBracketMsg == "Missing closing bracket for environment variable: "
UnterminatedQuoteMsg == "Unterminated quote sequence for executable: "
MissingParenMsg == "Missing closing parenthesis for executable: "

\* Mutant of AfterLoop: the open quote is not looked at.
AfterLoopQuoteIgnored(l, input, allowed) ==
  IF l.currentTokenType = envVarToken
  THEN [l EXCEPT !.result = Append(l.result,
                                   token(errorToken, <<>>, envVarPrefix \o l.currentContent)),
                 !.fatal = <<MissingBracketMsg>> \o envVarPrefix \o l.currentContent,
                 !.flow = "return"]
  ELSE IF l.currentTokenType = executableToken
  THEN [l EXCEPT !.result = Append(l.result,
                                   token(errorToken, <<>>,
                                         executablePrefix \o l.currentContent)),
                 !.fatal = <<MissingParenMsg>> \o SliceFrom(input, l.executableStartIdx),
                 !.flow = "return"]
  ELSE IF Len(l.currentContent) > 0 /\ l.currentTokenType = textToken
  THEN [l EXCEPT !.result = Append(l.result,
                                   token(textToken,
                                         unescapeTextContent(l.currentContent, allowed, FALSE),
                                         l.currentContent)),
                 !.fatal = <<>>,
                 !.flow = "return"]
  ELSE [l EXCEPT !.fatal = <<>>, !.flow = "return"]

\* Lines 241-271: the end of the line.
AfterLoop(l, input, allowed) ==
  IF l.currentTokenType = envVarToken
  THEN [l EXCEPT !.result = Append(l.result,
                                   token(errorToken, <<>>, envVarPrefix \o l.currentContent)),
                 !.fatal = <<MissingBracketMsg>> \o envVarPrefix \o l.currentContent,
                 !.flow = "return"]
  ELSE IF l.currentTokenType = executableToken
  THEN [l EXCEPT !.result = Append(l.result,
                                   token(errorToken, <<>>,
                                         executablePrefix \o l.currentContent)),
                 !.fatal = IF l.executableQuoteRune # NoRune
                           THEN <<UnterminatedQuoteMsg>> \o SliceFrom(input, l.executableStartIdx)
                           ELSE <<MissingParenMsg>> \o SliceFrom(input, l.executableStartIdx),
                 !.flow = "return"]
  ELSE IF Len(l.currentContent) > 0 /\ l.currentTokenType = textToken
  THEN [l EXCEPT !.result = Append(l.result,
                                   token(textToken,
                                         unescapeTextContent(l.currentContent, allowed, FALSE),
                                         l.currentContent)),
                 !.fatal = <<>>,
                 !.flow = "return"]
  ELSE [l EXCEPT !.fatal = <<>>, !.flow = "return"]

\* Lines 115-126: the locals as Tokenize declares them.
InitialLocals ==
  [idx |-> 0, currentContent |-> <<>>, currentTokenType |-> textToken,
   executableQuoteRune |-> NoRune, executableQuoteEnd |-> 0, executableStartIdx |-> 0,
   result |-> <<>>, fatal |-> <<>>, flow |-> "continue"]

\* Lines 114-272: the whole call, as the locals it ends with.
RECURSIVE TokenizeFrom(_, _, _)
TokenizeFrom(l, input, allowed) ==
  IF l.flow = "return" THEN l
  ELSE IF l.idx < Len(input) THEN TokenizeFrom(LoopBody(l, input, allowed), input, allowed)
  ELSE AfterLoop(l, input, allowed)

Tokenize(input, allowed) == TokenizeFrom(InitialLocals, input, allowed)

\* ------------------------------------------------- the lexer, step by step

VARIABLES
  input,               \* the line given to Tokenize
  allowedToken,        \* the ceiling given to Tokenize
  idx, currentContent, currentTokenType,
  executableQuoteRune, executableQuoteEnd, executableStartIdx,
  result,              \* the token list being built, then returned
  fatal,               \* the fatal message returned
  flow                 \* "continue": in the loop; "return": Tokenize returned

tokVars == <<input, allowedToken, idx, currentContent, currentTokenType,
             executableQuoteRune, executableQuoteEnd, executableStartIdx,
             result, fatal, flow>>

VARIABLES
  executables,         \* the request list given to callExecutables
  timeout,             \* config.Timeout
  mainPc,              \* "loop", "add", "returned" or "panic"
  loopIndex,           \* i, the index of the launching loop (zero-based)
  wgCounter,           \* the counter of the WaitGroup
  taskPc,              \* per goroutine: "unborn", "started", "running", "ran",
                       \* "recorded" or "done"
  expired,             \* per goroutine: timeoutCtx.Err() != nil
  cmdErr, stdoutBuf, stderrBuf,   \* per goroutine: what cmd.Run left
  executableResults,   \* the result slots
  writeLog,            \* history: <<goroutine, slot>> of every slot write, in order
  spawns               \* history: per request, how often its process was started

runVars == <<executables, timeout, mainPc, loopIndex, wgCounter, taskPc, expired,
             cmdErr, stdoutBuf, stderrBuf, executableResults, writeLog, spawns>>

VARIABLES
  template,            \* the sections given to captureExecutableAndArgs
  capPc,               \* "scan", "returned" or "panic"
  lineNo,              \* the line the loops are at, counted through the sections
  matchNo,             \* the match of that line the innermost loop is at
  captured,            \* the local executables: the requests appended so far
  templateFatals,      \* what SetFatalMessage was given, in order
  captureLog           \* history: what became of every match, in order

capVars == <<template, capPc, lineNo, matchNo, captured, templateFatals, captureLog>>

VARIABLES
  entry,               \* which main runs: "main.go" or "part_000"
  stage,               \* "start", "resolved", "checked", "called" or "exited"
  callData,            \* what template resolution returned
  fatals,              \* the fatals template resolution returned
  backendCalls,        \* history: how often CallBackend was called
  processArgs,         \* the arguments given to exec.CommandContext
  backendErr,          \* the error CallBackend returned: "nil", "error" or "BackedErr"
  backendExitCode,     \* the ExitCode of a BackedErr
  backendOutput,       \* the output CallBackend returned
  stdoutPrinted,       \* what main wrote to standard output, in order
  stderrPrinted,       \* what main wrote to standard error, in order
  exitStatus           \* the exit status, once stage is "exited"

progVars == <<entry, stage, callData, fatals, backendCalls, processArgs, backendErr,
              backendExitCode, backendOutput, stdoutPrinted, stderrPrinted, exitStatus>>

VARIABLES
  sectionLine,         \* the line given to tokenizeEnvVars and tokenizeExecutables
  envVarsReturn,       \* what tokenizeEnvVars returned, once called
  executablesReturn    \* what tokenizeExecutables returned, once called

lineVars == <<sectionLine, envVarsReturn, executablesReturn>>

vars == <<tokVars, runVars, capVars, progVars, lineVars>>

notTokVars == <<runVars, capVars, progVars, lineVars>>
notRunVars == <<tokVars, capVars, progVars, lineVars>>
notCapVars == <<tokVars, runVars, progVars, lineVars>>
notProgVars == <<tokVars, runVars, capVars, lineVars>>
notLineVars == <<tokVars, runVars, capVars, progVars>>

Alphabet == {Backtick, Backslash, DoubleQuote, SingleQuote,
             "#", "$", "{", "}", "(", ")", "a"}

RECURSIVE StringsUpTo(_)
StringsUpTo(n) ==
  IF n = 0 THEN {<<>>}
  ELSE LET shorter == StringsUpTo(n - 1)
       IN shorter \cup {Append(s, c) : s \in {t \in shorter : Len(t) = n - 1}, c \in Alphabet}

\* The lines tokenized: every string over the alphabet of at most MaxLen
\* characters, alone, after an opened reference, and as the inner text of an
\* executable reference.
Inputs ==
  LET bodies == StringsUpTo(MaxLen)
  IN bodies
       \cup {envVarPrefix \o b : b \in bodies}
       \cup {executablePrefix \o b : b \in bodies}
       \cup {executablePrefix \o b \o <<")">> : b \in bodies}

Ceilings == {textToken, executableToken, envVarToken}

Locals ==
  [idx |-> idx, currentContent |-> currentContent, currentTokenType |-> currentTokenType,
   executableQuoteRune |-> executableQuoteRune, executableQuoteEnd |-> executableQuoteEnd,
   executableStartIdx |-> executableStartIdx, result |-> result, fatal |-> fatal,
   flow |-> flow]

SetLocals(l) ==
  /\ idx' = l.idx
  /\ currentContent' = l.currentContent
  /\ currentTokenType' = l.currentTokenType
  /\ executableQuoteRune' = l.executableQuoteRune
  /\ executableQuoteEnd' = l.executableQuoteEnd
  /\ executableStartIdx' = l.executableStartIdx
  /\ result' = l.result
  /\ fatal' = l.fatal
  /\ flow' = l.flow

TokenizeInit ==
  /\ input \in Inputs
  /\ allowedToken \in Ceilings
  /\ idx = InitialLocals.idx
  /\ currentContent = InitialLocals.currentContent
  /\ currentTokenType = InitialLocals.currentTokenType
  /\ executableQuoteRune = InitialLocals.executableQuoteRune
  /\ executableQuoteEnd = InitialLocals.executableQuoteEnd
  /\ executableStartIdx = InitialLocals.executableStartIdx
  /\ result = InitialLocals.result
  /\ fatal = InitialLocals.fatal
  /\ flow = InitialLocals.flow

InLoop == flow = "continue" /\ idx < Len(input)

\* One pass through the loop body, entered in Text state.
TokenizeText ==
  /\ InLoop
  /\ currentTokenType = textToken
  /\ SetLocals(LoopBody(Locals, input, allowedToken))
  /\ UNCHANGED <<input, allowedToken>>
  /\ UNCHANGED notTokVars

\* One pass through the loop body, entered in EnvVar state.
TokenizeEnvVar ==
  /\ InLoop
  /\ currentTokenType = envVarToken
  /\ SetLocals(LoopBody(Locals, input, allowedToken))
  /\ UNCHANGED <<input, allowedToken>>
  /\ UNCHANGED notTokVars

\* One pass through the loop body, entered in Executable state.
TokenizeExecutable ==
  /\ InLoop
  /\ currentTokenType = executableToken
  /\ SetLocals(LoopBody(Locals, input, allowedToken))
  /\ UNCHANGED <<input, allowedToken>>
  /\ UNCHANGED notTokVars

\* The loop is left at the end of the line and Tokenize returns.
TokenizeEnd ==
  /\ flow = "continue"
  /\ idx >= Len(input)
  /\ SetLocals(AfterLoop(Locals, input, allowedToken))
  /\ UNCHANGED <<input, allowedToken>>
  /\ UNCHANGED notTokVars

TokenizeNext ==
  \/ TokenizeText
  \/ TokenizeEnvVar
  \/ TokenizeExecutable
  \/ TokenizeEnd

\* callExecutables is not running: it was given no request.
RunIdle ==
  /\ executables = <<>>
  /\ timeout = TimeoutNotSet
  /\ mainPc = "loop"
  /\ loopIndex = 0
  /\ wgCounter = 0
  /\ taskPc = <<>>
  /\ expired = <<>>
  /\ cmdErr = <<>>
  /\ stdoutBuf = <<>>
  /\ stderrBuf = <<>>
  /\ executableResults = <<>>
  /\ writeLog = <<>>
  /\ spawns = <<>>

\* captureExecutableAndArgs is not running: it was given no section.
CaptureIdle ==
  /\ template = <<>>
  /\ capPc = "scan"
  /\ lineNo = 1
  /\ matchNo = 1
  /\ captured = <<>>
  /\ templateFatals = <<>>
  /\ captureLog = <<>>

\* The call data of a resolution that failed.
NoCallData == [Host |-> <<>>, Headers |-> <<>>]

\* main is not running.
ProgramIdle ==
  /\ entry = "main.go"
  /\ stage = "start"
  /\ callData = NoCallData
  /\ fatals = <<>>
  /\ backendCalls = 0
  /\ processArgs = <<>>
  /\ backendErr = "nil"
  /\ backendExitCode = 0
  /\ backendOutput = <<>>
  /\ stdoutPrinted = <<>>
  /\ stderrPrinted = <<>>
  /\ exitStatus = 0

\* The function was not called yet.
NotCalled == [called |-> FALSE, tokens |-> <<>>, found |-> FALSE, fatal |-> <<>>]

\* tokenizeEnvVars and tokenizeExecutables are not running: no line was given.
LineIdle ==
  /\ sectionLine = <<>>
  /\ envVarsReturn = NotCalled
  /\ executablesReturn = NotCalled

\* Tokenize on every line of Inputs under every ceiling.
InitTokenize == TokenizeInit /\ RunIdle /\ CaptureIdle /\ ProgramIdle /\ LineIdle

SpecTokenize == InitTokenize /\ [][TokenizeNext]_vars

Returned == flow = "return"

\* ------------------------------------------------- properties of the lexer

RECURSIVE ConcatRaw(_)
ConcatRaw(tokens) ==
  IF Len(tokens) = 0 THEN <<>>
  ELSE Head(tokens).fatalContent \o ConcatRaw(Tail(tokens))

\* Zero-based offset in the line at which token i starts, counted from the
\* raw contents of the tokens before it.
TokenStart(i) == Len(ConcatRaw(SubSeq(result, 1, i - 1)))

HasTokenOfType(tt) == \E i \in 1..Len(result) : result[i].tokenType = tt

\* C1: when Tokenize has returned, the raw contents (fatalContent) of the
\* tokens, concatenated in order, are the input line, Error tokens included.
C1_LosslessPartition ==
  Returned => ConcatRaw(result) = input

\* C5: a Comment token is the last token of the list, its raw content is
\* the rest of the line from the '#' on, and nothing is tokenized after it.
C5_CommentIsLast ==
  Returned =>
    \A i \in 1..Len(result) :
      result[i].tokenType = commentToken =>
        /\ i = Len(result)
        /\ result[i].fatalContent = SliceFrom(input, TokenStart(i))
        /\ HasPrefix(result[i].fatalContent, commentPrefix)

C5_Witness ==
  /\ Returned
  /\ Len(result) = 3
  /\ result[1].tokenType = executableToken
  /\ result[2].tokenType = textToken
  /\ result[3].tokenType = commentToken
  /\ Len(result[3].fatalContent) >= 2

\* The prefixes Tokenize looks for under a ceiling ('#' under every one).
RecognisedPrefixes(allowed) ==
  {commentPrefix}
    \cup (IF allowed >= executableToken THEN {executablePrefix} ELSE {})
    \cup (IF allowed >= envVarToken THEN {envVarPrefix} ELSE {})

AllPrefixes == {commentPrefix, envVarPrefix, executablePrefix}

\* The character of the line at zero-based offset j is a backtick that is
\* not preceded by a backslash and stands immediately before one of prefixes.
EscapesPrefix(j, prefixes) ==
  /\ j < Len(input)
  /\ input[j + 1] = Backtick
  /\ (j = 0 \/ input[j] # Backslash)
  /\ \E p \in prefixes : HasPrefix(SliceFrom(input, j + 1), p)

\* The raw content of Text token i without its escaping backticks.
RECURSIVE StripEscapes(_, _, _, _)
StripEscapes(i, k, prefixes, acc) ==
  IF k > Len(result[i].fatalContent) THEN acc
  ELSE IF EscapesPrefix(TokenStart(i) + k - 1, prefixes)
       THEN StripEscapes(i, k + 1, prefixes, acc)
       ELSE StripEscapes(i, k + 1, prefixes, Append(acc, result[i].fatalContent[k]))

\* An escaped backtick that ends a Text token followed by another token is
\* a plain backtick in the content.
ExpectedTextContent(i, prefixes) ==
  LET stripped == StripEscapes(i, 1, prefixes, <<>>)
  IN IF i < Len(result) /\ HasSuffix(stripped, EscapedBacktick)
     THEN TrimSuffix(stripped, EscapedBacktick) \o <<Backtick>>
     ELSE stripped

EscapeSuppresses(prefixes) ==
  Returned =>
    \A i \in 1..Len(result) :
      result[i].tokenType = textToken =>
        /\ result[i].content = ExpectedTextContent(i, prefixes)
        /\ \A j \in TokenStart(i)..(TokenStart(i) + Len(result[i].fatalContent) - 1) :
             \A p \in prefixes :
               (EscapesPrefix(j, {p})) =>
                 /\ j + Len(p) < TokenStart(i) + Len(result[i].fatalContent)
                 /\ \A n \in 1..Len(result) : TokenStart(n) # j + 1

\* C6 as stated, for all three prefixes under every ceiling: a backtick not
\* preceded by a backslash and immediately before '#', '${' or '$(' keeps
\* the prefix in the surrounding Text token, no token starts at the prefix,
\* and the backtick is absent from the content and present in the raw
\* content.
C6_EscapeSuppressesAnyPrefix == EscapeSuppresses(AllPrefixes)

\* C6 amended: the same for the prefixes recognised under the ceiling of
\* the call.
C6_EscapeSuppressesRecognisedPrefix == EscapeSuppresses(RecognisedPrefixes(allowedToken))

C6_Witness ==
  /\ Returned
  /\ allowedToken = envVarToken
  /\ Len(result) = 2
  /\ result[1].tokenType = executableToken
  /\ result[2].tokenType = textToken
  /\ result[2].fatalContent = <<Backtick>> \o commentPrefix
  /\ result[2].content = commentPrefix

\* The quote left open, if any, after the inner text body of an executable
\* reference: a quote character opens a region that only the same quote
\* character, not preceded by a backslash, closes.
RECURSIVE OpenQuoteAfter(_, _, _)
OpenQuoteAfter(body, k, q) ==
  IF k > Len(body) THEN q
  ELSE IF body[k] \in {DoubleQuote, SingleQuote}
       THEN IF q = NoRune THEN OpenQuoteAfter(body, k + 1, body[k])
            ELSE IF body[k] = q /\ ~(k > 1 /\ body[k - 1] = Backslash)
                 THEN OpenQuoteAfter(body, k + 1, NoRune)
                 ELSE OpenQuoteAfter(body, k + 1, q)
       ELSE OpenQuoteAfter(body, k + 1, q)

ErrorTokens == {i \in 1..Len(result) : result[i].tokenType = errorToken}

\* The part of the line that the tokens before the last one do not cover.
LastFragment == SliceFrom(input, TokenStart(Len(result)))

\* C7: at the end of the line in EnvVar state the list ends with its only
\* Error token and the fatal is the missing-bracket message followed by the
\* unterminated fragment; in Executable state the fatal is the
\* unterminated-quote message exactly when a quote is open in the fragment,
\* and the missing-parenthesis message otherwise.
C7_UnterminatedIsError ==
  /\ (Returned /\ currentTokenType = envVarToken) =>
       /\ ErrorTokens = {Len(result)}
       /\ HasPrefix(LastFragment, envVarPrefix)
       /\ fatal = <<MissingBracketMsg>> \o LastFragment
  /\ (Returned /\ currentTokenType = executableToken) =>
       /\ ErrorTokens = {Len(result)}
       /\ HasPrefix(LastFragment, executablePrefix)
       /\ fatal = <<IF OpenQuoteAfter(SliceFrom(LastFragment, 2), 1, NoRune) # NoRune
                    THEN UnterminatedQuoteMsg
                    ELSE MissingParenMsg>> \o LastFragment

C7_Witness ==
  /\ Returned
  /\ currentTokenType = executableToken
  /\ Len(result) = 2
  /\ fatal[1] = UnterminatedQuoteMsg
  /\ Len(fatal) = 4

ExecutableTokens == {i \in 1..Len(result) : result[i].tokenType = executableToken}

\* The inner text of Executable token i: its raw content without the '$('
\* in front and the ')' at the end.
InnerText(i) == SubSeq(result[i].fatalContent, 3, Len(result[i].fatalContent) - 1)

\* Position k of body holds a backtick that escapes the character after it:
\* the backtick is not itself preceded by a backslash.
EscapingBacktickAt(body, k) ==
  /\ k >= 1
  /\ body[k] = Backtick
  /\ ~(k > 1 /\ body[k - 1] = Backslash)

\* The content expected of an executable reference with inner text body:
\* outside quoted regions a backtick-escaped ')' loses its backtick, and
\* the text of quoted regions is unchanged.  q is the quote open before
\* position k.
RECURSIVE UnescapeOutsideQuotes(_, _, _, _)
UnescapeOutsideQuotes(body, k, q, acc) ==
  IF k > Len(body) THEN acc
  ELSE LET q2 == OpenQuoteAfter(SubSeq(body, 1, k), 1, NoRune)
       IN IF body[k] = ")" /\ q = NoRune /\ EscapingBacktickAt(body, k - 1)
          THEN UnescapeOutsideQuotes(body, k + 1, q2,
                                     SubSeq(acc, 1, Len(acc) - 1) \o <<")">>)
          ELSE UnescapeOutsideQuotes(body, k + 1, q2, Append(acc, body[k]))

ExpectedExecutableContent(body) ==
  LET unescaped == UnescapeOutsideQuotes(body, 1, NoRune, <<>>)
  IN IF HasSuffix(unescaped, EscapedBacktick)
     THEN TrimSuffix(unescaped, EscapedBacktick) \o <<Backtick>>
     ELSE unescaped

\* C8: an Executable token ends at the first ')' of its inner text's line
\* that is outside every quoted region and not escaped by a backtick: each
\* ')' inside the inner text is quoted or escaped, the closing ')' is
\* neither, and the content is the inner text with every escaped ')'
\* outside quotes written without its backtick and the quoted regions kept.
C8_ExecutableClosesOutsideQuotes ==
  Returned =>
    \A i \in ExecutableTokens :
      LET raw == result[i].fatalContent
          body == InnerText(i)
      IN /\ HasPrefix(raw, executablePrefix)
         /\ HasSuffix(raw, <<")">>)
         /\ raw = SubSeq(input, TokenStart(i) + 1, TokenStart(i) + Len(raw))
         /\ \A k \in 1..Len(body) :
              body[k] = ")" =>
                \/ OpenQuoteAfter(SubSeq(body, 1, k - 1), 1, NoRune) # NoRune
                \/ EscapingBacktickAt(body, k - 1)
         /\ OpenQuoteAfter(body, 1, NoRune) = NoRune
         /\ ~EscapingBacktickAt(body, Len(body))
         /\ result[i].content = ExpectedExecutableContent(body)

C8_Witness ==
  /\ Returned
  /\ \E i \in ExecutableTokens :
       /\ InnerText(i) = <<DoubleQuote, ")", DoubleQuote>>
       /\ result[i].content = InnerText(i)
  /\ fatal = <<>>

C8_WitnessEscaped ==
  /\ Returned
  /\ \E i \in ExecutableTokens :
       /\ InnerText(i) = <<Backtick, ")", "a">>
       /\ result[i].content = <<")", "a">>

\* ---------------------------------------------------- callExecutables

\* The timeouts configured in the runs modelled, in seconds.
Timeouts == {TimeoutNotSet, 1}

\* fmt's %d for the timeouts modelled.
Itoa(n) == IF n = 1 THEN "1" ELSE IF n = 2 THEN "2" ELSE "-1"

IsSpace(c) == c \in {" ", "\n", "\t"}

\* strings.TrimSpace.
RECURSIVE TrimLeft(_)
TrimLeft(s) == IF Len(s) > 0 /\ IsSpace(Head(s)) THEN TrimLeft(Tail(s)) ELSE s

RECURSIVE TrimRight(_)
TrimRight(s) ==
  IF Len(s) > 0 /\ IsSpace(s[Len(s)]) THEN TrimRight(SubSeq(s, 1, Len(s) - 1)) ELSE s

TrimSpace(s) == TrimRight(TrimLeft(s))

executableAndArgs(e, a) == [executable |-> e, args |-> a]

\* What a program does when it runs to its own end: the error cmd.Run
\* returns ("nil" for exit status 0) and what it wrote.
Programs ==
  { [request |-> executableAndArgs("true", <<>>),
     err |-> "nil", stdout |-> <<>>, stderr |-> <<>>],
    [request |-> executableAndArgs("false", <<>>),
     err |-> "exit status 1", stdout |-> <<>>, stderr |-> <<>>],
    [request |-> executableAndArgs("echo", <<"o">>),
     err |-> "nil", stdout |-> <<"o", "\n">>, stderr |-> <<>>],
    [request |-> executableAndArgs("ls", <<"x">>),
     err |-> "exit status 2", stdout |-> <<>>, stderr |-> <<"l", "s", ":", " ", "x", "\n">>] }

Requests == {p.request : p \in Programs}

ProgramOf(r) == CHOOSE p \in Programs : p.request = r

RECURSIVE ListsUpTo(_)
ListsUpTo(n) ==
  IF n = 0 THEN {<<>>}
  ELSE LET shorter == ListsUpTo(n - 1)
       IN shorter \cup {Append(l, r) : l \in {m \in shorter : Len(m) = n - 1}, r \in Requests}

\* cmd.String(): the program and its arguments, separated by spaces.
RECURSIVE JoinArgs(_)
JoinArgs(args) ==
  IF Len(args) = 0 THEN <<>> ELSE <<" ", Head(args)>> \o JoinArgs(Tail(args))

CmdString(e) == <<e.executable>> \o JoinArgs(e.args)

executableOutput(o, f) == [output |-> o, fatalMessage |-> f]

Tasks == 1..Len(executables)

\* Line 82 and the state before the loop; goroutine t is the one the loop
\* starts for request t.
RunInit ==
  /\ executables \in ListsUpTo(MaxRequests)
  /\ timeout \in Timeouts
  /\ mainPc = "loop"
  /\ loopIndex = 0
  /\ wgCounter = 0
  /\ taskPc = [t \in Tasks |-> "unborn"]
  /\ expired = [t \in Tasks |-> FALSE]
  /\ cmdErr = [t \in Tasks |-> "nil"]
  /\ stdoutBuf = [t \in Tasks |-> <<>>]
  /\ stderrBuf = [t \in Tasks |-> <<>>]
  /\ executableResults = [t \in Tasks |-> executableOutput(<<>>, <<>>)]
  /\ writeLog = <<>>
  /\ spawns = [t \in Tasks |-> 0]

\* Lines 85-86 and 134: the go statement for request loopIndex.
MainGo ==
  /\ mainPc = "loop"
  /\ loopIndex < Len(executables)
  /\ taskPc' = [taskPc EXCEPT ![loopIndex + 1] = "started"]
  /\ mainPc' = "add"
  /\ UNCHANGED <<executables, timeout, spawns, loopIndex, wgCounter, expired, cmdErr, stdoutBuf,
                 stderrBuf, executableResults, writeLog>>
  /\ UNCHANGED notRunVars

\* Line 136: wg.Add(1), after the goroutine was started.
MainAdd ==
  /\ mainPc = "add"
  /\ wgCounter' = wgCounter + 1
  /\ loopIndex' = loopIndex + 1
  /\ mainPc' = "loop"
  /\ UNCHANGED <<executables, timeout, spawns, taskPc, expired, cmdErr, stdoutBuf, stderrBuf,
                 executableResults, writeLog>>
  /\ UNCHANGED notRunVars

\* Mutant of MainWait: the results are returned without wg.Wait().
MainWaitNoBarrier ==
  /\ mainPc = "loop"
  /\ loopIndex = Len(executables)
  /\ mainPc' = "returned"
  /\ UNCHANGED <<executables, timeout, spawns, loopIndex, wgCounter, taskPc, expired, cmdErr,
                 stdoutBuf, stderrBuf, executableResults, writeLog>>
  /\ UNCHANGED notRunVars

\* Lines 139-141: wg.Wait() returns once the counter is zero, and the
\* results are returned.
MainWait ==
  /\ mainPc = "loop"
  /\ loopIndex = Len(executables)
  /\ wgCounter = 0
  /\ mainPc' = "returned"
  /\ UNCHANGED <<executables, timeout, spawns, loopIndex, wgCounter, taskPc, expired, cmdErr,
                 stdoutBuf, stderrBuf, executableResults, writeLog>>
  /\ UNCHANGED notRunVars

\* Lines 89-105: the goroutine derives its context, builds the command and
\* calls cmd.Run, which starts the process.
TaskRun(t) ==
  /\ mainPc # "panic"
  /\ taskPc[t] = "started"
  /\ taskPc' = [taskPc EXCEPT ![t] = "running"]
  /\ spawns' = [spawns EXCEPT ![t] = spawns[t] + 1]
  /\ UNCHANGED <<executables, timeout, mainPc, loopIndex, wgCounter, expired, cmdErr,
                 stdoutBuf, stderrBuf, executableResults, writeLog>>
  /\ UNCHANGED notRunVars

\* Line 98: the deadline of the goroutine's context passes.  It can pass
\* until the goroutine has read timeoutCtx.Err() at line 106.
DeadlineExceeded(t) ==
  /\ mainPc # "panic"
  /\ timeout # TimeoutNotSet
  /\ taskPc[t] \in {"running", "ran"}
  /\ ~expired[t]
  /\ expired' = [expired EXCEPT ![t] = TRUE]
  /\ UNCHANGED <<executables, timeout, spawns, mainPc, loopIndex, wgCounter, taskPc, cmdErr,
                 stdoutBuf, stderrBuf, executableResults, writeLog>>
  /\ UNCHANGED notRunVars

\* Line 105: the process ends by itself and cmd.Run returns.
ProcessExit(t) ==
  /\ mainPc # "panic"
  /\ taskPc[t] = "running"
  /\ LET p == ProgramOf(executables[t])
     IN /\ cmdErr' = [cmdErr EXCEPT ![t] = p.err]
        /\ stdoutBuf' = [stdoutBuf EXCEPT ![t] = p.stdout]
        /\ stderrBuf' = [stderrBuf EXCEPT ![t] = p.stderr]
  /\ taskPc' = [taskPc EXCEPT ![t] = "ran"]
  /\ UNCHANGED <<executables, timeout, spawns, mainPc, loopIndex, wgCounter, expired,
                 executableResults, writeLog>>
  /\ UNCHANGED notRunVars

\* Lines 101 and 105: the context is done, exec.CommandContext kills the
\* process and cmd.Run returns.
ProcessKilled(t) ==
  /\ mainPc # "panic"
  /\ taskPc[t] = "running"
  /\ expired[t]
  /\ cmdErr' = [cmdErr EXCEPT ![t] = "signal: killed"]
  /\ taskPc' = [taskPc EXCEPT ![t] = "ran"]
  /\ UNCHANGED <<executables, timeout, spawns, mainPc, loopIndex, wgCounter, expired, stdoutBuf,
                 stderrBuf, executableResults, writeLog>>
  /\ UNCHANGED notRunVars

\* Lines 116-122: the output added to the fatal of a failed command.
FailureOutput(stdoutStr, stderrStr) ==
  IF stdoutStr # <<>> \/ stderrStr # <<>>
  THEN <<"\n">> \o TrimSpace(TrimSpace(stdoutStr) \o <<" ">> \o TrimSpace(stderrStr))
  ELSE <<>>

\* Mutant of Outcome: the error of cmd.Run is looked at before the context.
OutcomeErrorFirst(e, ctxErr, err, stdoutStr, stderrStr, configTimeout) ==
  IF err # "nil"
  THEN executableOutput(<<>>, <<"Executable ">> \o CmdString(e) \o <<" error: ", err>>
                               \o FailureOutput(stdoutStr, stderrStr))
  ELSE IF ctxErr
  THEN executableOutput(<<>>, <<"Executable ">> \o CmdString(e)
                               \o <<" timed out after ", Itoa(configTimeout), " seconds">>)
  ELSE IF stdoutStr = <<>>
  THEN executableOutput(<<>>, <<"Executable ">> \o CmdString(e)
                               \o <<"\n", "Command produced no stdout output">>)
  ELSE executableOutput(stdoutStr, <<>>)

\* Mutant of Outcome: an empty standard output is recorded as the output.
OutcomeEmptyOutputAccepted(e, ctxErr, err, stdoutStr, stderrStr, configTimeout) ==
  IF ctxErr
  THEN executableOutput(<<>>, <<"Executable ">> \o CmdString(e)
                               \o <<" timed out after ", Itoa(configTimeout), " seconds">>)
  ELSE IF err # "nil"
  THEN executableOutput(<<>>, <<"Executable ">> \o CmdString(e) \o <<" error: ", err>>
                               \o FailureOutput(stdoutStr, stderrStr))
  ELSE executableOutput(stdoutStr, <<>>)

\* Lines 106-133: the result the goroutine records for command e.
Outcome(e, ctxErr, err, stdoutStr, stderrStr, configTimeout) ==
  IF ctxErr
  THEN executableOutput(<<>>, <<"Executable ">> \o CmdString(e)
                               \o <<" timed out after ", Itoa(configTimeout), " seconds">>)
  ELSE IF err # "nil"
  THEN executableOutput(<<>>, <<"Executable ">> \o CmdString(e) \o <<" error: ", err>>
                               \o FailureOutput(stdoutStr, stderrStr))
  ELSE IF stdoutStr = <<>>
  THEN executableOutput(<<>>, <<"Executable ">> \o CmdString(e)
                               \o <<"\n", "Command produced no stdout output">>)
  ELSE executableOutput(stdoutStr, <<>>)

\* Mutant of resultIndex: the goroutine reads the loop variable it shares
\* with the launching loop instead of its own argument.
resultIndexShared(t) ==
  IF loopIndex < Len(executables) THEN loopIndex + 1 ELSE Len(executables)

\* Lines 86 and 134: the slot index handed to goroutine t.
resultIndex(t) == t

\* Lines 106-133: the goroutine writes its result slot.
TaskRecord(t) ==
  /\ mainPc # "panic"
  /\ taskPc[t] = "ran"
  /\ executableResults' =
       [executableResults EXCEPT ![resultIndex(t)] =
          Outcome(executables[t], expired[t], cmdErr[t], stdoutBuf[t], stderrBuf[t], timeout)]
  /\ writeLog' = Append(writeLog, <<t, resultIndex(t)>>)
  /\ taskPc' = [taskPc EXCEPT ![t] = "recorded"]
  /\ UNCHANGED <<executables, timeout, spawns, mainPc, loopIndex, wgCounter, expired, cmdErr,
                 stdoutBuf, stderrBuf>>
  /\ UNCHANGED notRunVars

\* Line 87: the deferred wg.Done(); a counter below zero panics.
TaskDone(t) ==
  /\ mainPc # "panic"
  /\ taskPc[t] = "recorded"
  /\ taskPc' = [taskPc EXCEPT ![t] = "done"]
  /\ wgCounter' = wgCounter - 1
  /\ mainPc' = IF wgCounter - 1 < 0 THEN "panic" ELSE mainPc
  /\ UNCHANGED <<executables, timeout, spawns, loopIndex, expired, cmdErr, stdoutBuf, stderrBuf,
                 executableResults, writeLog>>
  /\ UNCHANGED notRunVars

\* Tokenize is not running: no line was given.
TokenizeIdle ==
  /\ input = <<>>
  /\ allowedToken = envVarToken
  /\ idx = InitialLocals.idx
  /\ currentContent = InitialLocals.currentContent
  /\ currentTokenType = InitialLocals.currentTokenType
  /\ executableQuoteRune = InitialLocals.executableQuoteRune
  /\ executableQuoteEnd = InitialLocals.executableQuoteEnd
  /\ executableStartIdx = InitialLocals.executableStartIdx
  /\ result = InitialLocals.result
  /\ fatal = InitialLocals.fatal
  /\ flow = InitialLocals.flow

RunNext ==
  \/ MainGo
  \/ MainAdd
  \/ MainWait
  \/ \E t \in Tasks : TaskRun(t)
  \/ \E t \in Tasks : DeadlineExceeded(t)
  \/ \E t \in Tasks : ProcessExit(t)
  \/ \E t \in Tasks : ProcessKilled(t)
  \/ \E t \in Tasks : TaskRecord(t)
  \/ \E t \in Tasks : TaskDone(t)

\* callExecutables on every request list of at most MaxRequests requests.
InitRun == RunInit /\ TokenizeIdle /\ CaptureIdle /\ ProgramIdle /\ LineIdle

SpecRun == InitRun /\ [][RunNext]_vars

\* ------------------------------------------ properties of callExecutables

HasReturned == mainPc = "returned"

Recorded(t) == taskPc[t] \in {"recorded", "done"}

Contains(s, piece) == \E k \in 1..Len(s) : s[k] = piece

TimedOutMessage(e) ==
  <<"Executable ">> \o CmdString(e) \o <<" timed out after ", Itoa(timeout), " seconds">>

\* C2: slots are written only by the goroutine of their own index, never
\* twice; when callExecutables returns there is one slot per request and
\* slot t holds what request t's command did: its fatal names that command,
\* its output is that program's standard output.
C2_SlotHoldsOwnOutcome ==
  /\ \A k \in 1..Len(writeLog) :
       /\ writeLog[k][2] = writeLog[k][1]
       /\ \A n \in 1..Len(writeLog) : writeLog[n][2] = writeLog[k][2] => n = k
  /\ HasReturned =>
       /\ DOMAIN executableResults = 1..Len(executables)
       /\ \A t \in Tasks :
            LET r == executableResults[t]
                e == executables[t]
            IN /\ r = Outcome(e, expired[t], cmdErr[t], stdoutBuf[t], stderrBuf[t], timeout)
               /\ r.fatalMessage # <<>> =>
                    SubSeq(r.fatalMessage, 2, 1 + Len(CmdString(e))) = CmdString(e)
               /\ r.output # <<>> => r.output = ProgramOf(e).stdout

\* Request 2 finished first, and the two requests differ.
C2_Witness ==
  /\ HasReturned
  /\ Len(executables) = 2
  /\ executables[1].executable = "echo"
  /\ executables[2].executable = "false"
  /\ writeLog = <<(<<2, 2>>), (<<1, 1>>)>>
  /\ executableResults[1].output # <<>>
  /\ executableResults[2].fatalMessage # <<>>

\* C3: when callExecutables has returned, every goroutine it started has
\* written its slot and called wg.Done, so no slot is written afterwards.
C3_JoinBarrier ==
  HasReturned =>
    /\ \A t \in Tasks : taskPc[t] = "done"
    /\ Len(writeLog) = Len(executables)

C3_Witness ==
  /\ HasReturned
  /\ Len(executables) = 2
  /\ \A t \in Tasks : taskPc[t] = "done"

\* C4: when callExecutables returns, every slot has exactly one of output
\* and fatalMessage non-empty.
C4_ExactlyOneOfOutputAndFatal ==
  HasReturned =>
    \A t \in Tasks :
      (executableResults[t].output = <<>>) # (executableResults[t].fatalMessage = <<>>)

\* A success with output next to a success without output.
C4_Witness ==
  /\ HasReturned
  /\ Len(executables) = 2
  /\ executables[1].executable = "true"
  /\ executableResults[1].fatalMessage # <<>>
  /\ executableResults[2].output # <<>>

\* C9: a goroutine whose context was past its deadline when it read
\* timeoutCtx.Err() recorded the timed-out fatal, naming the command and
\* the timeout, and no output, whatever cmd.Run returned; the error fatal
\* is recorded only without a timeout, and the no-stdout fatal only
\* without a timeout and without an error.
C9_TimeoutSupersedes ==
  \A t \in Tasks :
    Recorded(t) =>
      LET r == executableResults[t]
      IN /\ expired[t] => r = executableOutput(<<>>, TimedOutMessage(executables[t]))
         /\ Contains(r.fatalMessage, " error: ") <=> (~expired[t] /\ cmdErr[t] # "nil")
         /\ Contains(r.fatalMessage, "Command produced no stdout output")
              <=> (~expired[t] /\ cmdErr[t] = "nil" /\ stdoutBuf[t] = <<>>)

\* The deadline passed after the command had succeeded with output.
C9_Witness ==
  \E t \in Tasks :
    /\ Recorded(t)
    /\ expired[t]
    /\ cmdErr[t] = "nil"
    /\ stdoutBuf[t] # <<>>
    /\ executableResults[t].output = <<>>
    /\ Contains(executableResults[t].fatalMessage, " timed out after ")

\* C10: the output recorded for a command that succeeded with non-empty
\* standard output is the standard output with the white space at both
\* ends trimmed.
C10_OutputIsTrimmed ==
  \A t \in Tasks :
    (Recorded(t) /\ ~expired[t] /\ cmdErr[t] = "nil" /\ stdoutBuf[t] # <<>>) =>
      executableResults[t].output = TrimSpace(stdoutBuf[t])


\* ------------------------------------------- captureExecutableAndArgs

HasAt(s, p, piece) ==
  p + Len(piece) - 1 <= Len(s) /\ SubSeq(s, p, p + Len(piece) - 1) = piece

\* [^)]* from position p: the index after the longest run without ")".
RECURSIVE SkipNoParen(_, _)
SkipNoParen(s, p) == IF p <= Len(s) /\ s[p] # ")" THEN SkipNoParen(s, p + 1) ELSE p

\* executableExpressionRe, (m?)\$\([^)]*\)?, tried at position p: the
\* index after the match, 0 without a match there.
ExpressionEndAt(s, p) ==
  LET open == IF HasAt(s, p, <<"m", "$", "(">>) THEN p + 3
              ELSE IF HasAt(s, p, <<"$", "(">>) THEN p + 2
              ELSE 0
      q == SkipNoParen(s, open)
  IN IF open = 0 THEN 0 ELSE IF q <= Len(s) THEN q + 1 ELSE q

RECURSIVE FindAllFrom(_, _)
FindAllFrom(s, p) ==
  IF p > Len(s) THEN <<>>
  ELSE LET e == ExpressionEndAt(s, p)
       IN IF e = 0 THEN FindAllFrom(s, p + 1)
          ELSE <<SubSeq(s, p, e - 1)>> \o FindAllFrom(s, e)

\* executableExpressionRe.FindAllString(s, -1): the matches, left to right.
FindAllString(s) == FindAllFrom(s, 1)

RECURSIVE FindSubmatchFrom(_, _)
FindSubmatchFrom(s, p) ==
  IF p > Len(s) THEN <<>>
  ELSE LET q == SkipNoParen(s, p + 2)
       IN IF HasAt(s, p, <<"$", "(">>) /\ q <= Len(s)
          THEN <<SubSeq(s, p, q), SubSeq(s, p + 2, q - 1)>>
          ELSE FindSubmatchFrom(s, p + 1)

\* executableRe.FindStringSubmatch(s), with executableRe \$\(([^)]*)\):
\* the leftmost match and its group, or nil (the empty sequence).
FindStringSubmatch(s) == FindSubmatchFrom(s, 1)

RECURSIVE TokenizeLineFrom(_, _, _, _, _)
TokenizeLineFrom(s, p, cur, quote, toks) ==
  IF p > Len(s)
  THEN IF quote # NoRune
       THEN [tokens |-> <<>>, err |-> "Unterminated quote sequence"]
       ELSE [tokens |-> IF cur = <<>> THEN toks ELSE Append(toks, cur), err |-> "nil"]
  ELSE LET c == s[p]
       IN IF quote = NoRune
          THEN IF IsSpace(c)
               THEN TokenizeLineFrom(s, p + 1, <<>>, quote,
                                     IF cur = <<>> THEN toks ELSE Append(toks, cur))
               ELSE IF c \in {DoubleQuote, SingleQuote}
               THEN TokenizeLineFrom(s, p + 1, Append(cur, c), c, toks)
               ELSE TokenizeLineFrom(s, p + 1, Append(cur, c), quote, toks)
          ELSE IF c = quote /\ s[p - 1] # Backslash
               THEN TokenizeLineFrom(s, p + 1, Append(cur, c), NoRune, toks)
               ELSE TokenizeLineFrom(s, p + 1, Append(cur, c), quote, toks)

\* utils.TokenizeLine: the white-space-separated tokens of s, a quoted span
\* being one token, a backslash-escaped quote not closing its span; an
\* error when a quote is left open.
TokenizeLine(s) == TokenizeLineFrom(s, 1, <<>>, NoRune, <<>>)

\* The sections scanned, in scanning order (two of the eight names of the
\* list are modelled, the other six sections being empty).
includedSections == <<"Host", "Headers">>

templateLine(c, n) == [LineContents |-> c, SourceLineIndex |-> n]

\* The line contents the sections are built from: a reference with an
\* argument after an m, an empty reference before a good one, a blank
\* reference, an open quote, a missing parenthesis after plain text.
TemplateLineContents ==
  { <<"m", "$", "(", "a", " ", "b", ")">>,
    <<"$", "(", ")", "$", "(", "b", ")">>,
    <<"$", "(", " ", ")">>,
    <<"$", "(", DoubleQuote, "a", ")">>,
    <<"x", "$", "(", "a">> }

RECURSIVE ContentsUpTo(_)
ContentsUpTo(n) ==
  IF n = 0 THEN {<<>>}
  ELSE LET shorter == ContentsUpTo(n - 1)
       IN shorter \cup {Append(l, c) : l \in {m \in shorter : Len(m) = n - 1},
                                         c \in TemplateLineContents}

\* The sections with contents c1 and c2; a line's SourceLineIndex is its
\* place in the file, each section having a heading line.
TemplateOf(c1, c2) ==
  << [l \in 1..Len(c1) |-> templateLine(c1[l], l)],
     [l \in 1..Len(c2) |-> templateLine(c2[l], Len(c1) + 1 + l)] >>

RECURSIVE Flatten(_)
Flatten(seqs) == IF seqs = <<>> THEN <<>> ELSE Head(seqs) \o Flatten(Tail(seqs))

\* Lines 44-45: the lines in the order the two outer loops visit them.
TemplateLines == Flatten(template)

CurrentLine == TemplateLines[lineNo]

\* Line 48: the matches the innermost loop ranges over.
Matches == FindAllString(CurrentLine.LineContents)

AtMatch ==
  /\ capPc = "scan"
  /\ lineNo <= Len(TemplateLines)
  /\ matchNo <= Len(Matches)

\* SetFatalMessage: the message is recorded against the line.
SetFatalMessage(msg, sourceLineIndex) ==
  templateFatals' = Append(templateFatals, [message |-> msg, line |-> sourceLineIndex])

Logged(what, msg) ==
  captureLog' = Append(captureLog, [line |-> CurrentLine.SourceLineIndex,
                                    reference |-> Matches[matchNo],
                                    outcome |-> what, message |-> msg])

\* Line 42 and the state before the loops.
CaptureInit ==
  /\ template \in {TemplateOf(c1, c2) : c1 \in ContentsUpTo(MaxLines),
                                         c2 \in ContentsUpTo(MaxLines)}
  /\ capPc = "scan"
  /\ lineNo = 1
  /\ matchNo = 1
  /\ captured = <<>>
  /\ templateFatals = <<>>
  /\ captureLog = <<>>

\* Lines 49-54: the match has no group.
CaptureMalformed ==
  /\ AtMatch
  /\ Len(FindStringSubmatch(Matches[matchNo])) # 2
  /\ SetFatalMessage("Malformed executable", CurrentLine.SourceLineIndex)
  /\ Logged("fatal", "Malformed executable")
  /\ matchNo' = matchNo + 1
  /\ UNCHANGED <<template, capPc, lineNo, captured>>
  /\ UNCHANGED notCapVars

\* Lines 56-60: the group is the empty string.
CaptureEmpty ==
  /\ AtMatch
  /\ LET capture == FindStringSubmatch(Matches[matchNo])
     IN /\ Len(capture) = 2
        /\ capture[2] = <<>>
  /\ SetFatalMessage("Empty executable", CurrentLine.SourceLineIndex)
  /\ Logged("fatal", "Empty executable")
  /\ matchNo' = matchNo + 1
  /\ UNCHANGED <<template, capPc, lineNo, captured>>
  /\ UNCHANGED notCapVars

\* Lines 62-66: utils.TokenizeLine returns an error.
CaptureUntokenizable ==
  /\ AtMatch
  /\ LET capture == FindStringSubmatch(Matches[matchNo])
     IN /\ Len(capture) = 2
        /\ capture[2] # <<>>
        /\ TokenizeLine(capture[2]).err # "nil"
        /\ SetFatalMessage(TokenizeLine(capture[2]).err, CurrentLine.SourceLineIndex)
        /\ Logged("fatal", TokenizeLine(capture[2]).err)
  /\ matchNo' = matchNo + 1
  /\ UNCHANGED <<template, capPc, lineNo, captured>>
  /\ UNCHANGED notCapVars

\* Line 68: tokenizedExecutableLine[0] of an empty list, the index is out
\* of range and the goroutine panics.
CaptureIndexPanic ==
  /\ AtMatch
  /\ LET capture == FindStringSubmatch(Matches[matchNo])
     IN /\ Len(capture) = 2
        /\ capture[2] # <<>>
        /\ TokenizeLine(capture[2]).err = "nil"
        /\ TokenizeLine(capture[2]).tokens = <<>>
  /\ Logged("panic", "index out of range")
  /\ capPc' = "panic"
  /\ UNCHANGED <<template, lineNo, matchNo, captured, templateFatals>>
  /\ UNCHANGED notCapVars

\* Lines 68-73: the request is appended.
CaptureAppend ==
  /\ AtMatch
  /\ LET capture == FindStringSubmatch(Matches[matchNo])
     IN /\ Len(capture) = 2
        /\ capture[2] # <<>>
        /\ TokenizeLine(capture[2]).err = "nil"
        /\ TokenizeLine(capture[2]).tokens # <<>>
        /\ captured' = Append(captured,
                              executableAndArgs(Head(TokenizeLine(capture[2]).tokens),
                                                Tail(TokenizeLine(capture[2]).tokens)))
  /\ Logged("request", "")
  /\ matchNo' = matchNo + 1
  /\ UNCHANGED <<template, capPc, lineNo, templateFatals>>
  /\ UNCHANGED notCapVars

\* Lines 44-48: the matches of the line are through, the loops go to the
\* next line.
CaptureNextLine ==
  /\ capPc = "scan"
  /\ lineNo <= Len(TemplateLines)
  /\ matchNo > Len(Matches)
  /\ lineNo' = lineNo + 1
  /\ matchNo' = 1
  /\ UNCHANGED <<template, capPc, captured, templateFatals, captureLog>>
  /\ UNCHANGED notCapVars

\* Line 78: the sections are through, the requests are returned.
CaptureReturn ==
  /\ capPc = "scan"
  /\ lineNo > Len(TemplateLines)
  /\ capPc' = "returned"
  /\ UNCHANGED <<template, lineNo, matchNo, captured, templateFatals, captureLog>>
  /\ UNCHANGED notCapVars

CaptureNext ==
  \/ CaptureMalformed
  \/ CaptureEmpty
  \/ CaptureUntokenizable
  \/ CaptureIndexPanic
  \/ CaptureAppend
  \/ CaptureNextLine
  \/ CaptureReturn

\* captureExecutableAndArgs on every template of two sections of at most
\* MaxLines lines.
InitCapture == CaptureInit /\ TokenizeIdle /\ RunIdle /\ ProgramIdle /\ LineIdle

SpecCapture == InitCapture /\ [][CaptureNext]_vars

\* -------------------------------- properties of captureExecutableAndArgs

\* A reference with its closing parenthesis whose inner text is white space
\* or nothing.
BlankReference(m) ==
  LET capture == FindStringSubmatch(m)
  IN Len(capture) = 2 /\ TrimSpace(capture[2]) = <<>>

\* C11: every reference whose inner text is empty after trimming white
\* space got the fatal Empty executable on its own line, and no request.
C11_BlankIsEmptyExecutable ==
  \A k \in 1..Len(captureLog) :
    BlankReference(captureLog[k].reference) =>
      /\ captureLog[k].outcome = "fatal"
      /\ captureLog[k].message = "Empty executable"
      /\ \E f \in 1..Len(templateFatals) :
           templateFatals[f] = [message |-> "Empty executable", line |-> captureLog[k].line]

RECURSIVE ReferencesOf(_)
ReferencesOf(lines) ==
  IF lines = <<>> THEN <<>>
  ELSE LET matches == FindAllString(Head(lines).LineContents)
       IN [k \in 1..Len(matches) |->
             [line |-> Head(lines).SourceLineIndex, reference |-> matches[k]]]
          \o ReferencesOf(Tail(lines))

\* Every matched reference of the template, by section, line and match.
AllReferences == ReferencesOf(TemplateLines)

RECURSIVE RequestsOf(_)
RequestsOf(refs) ==
  IF refs = <<>> THEN <<>>
  ELSE LET capture == FindStringSubmatch(Head(refs).reference)
           tokenized == TokenizeLine(capture[2])
       IN (IF Len(capture) = 2 /\ capture[2] # <<>> /\ tokenized.err = "nil"
              /\ tokenized.tokens # <<>>
           THEN <<executableAndArgs(Head(tokenized.tokens), Tail(tokenized.tokens))>>
           ELSE <<>>)
          \o RequestsOf(Tail(refs))

\* C12: every matched reference gets one fatal on its own line or one
\* request, never neither; when the scan is over every reference of every
\* section was looked at, and the requests are those of the good
\* references, by section, line and match.
C12_AccumulateAndContinue ==
  /\ Len(captureLog) <= Len(AllReferences)
  /\ \A k \in 1..Len(captureLog) :
       /\ captureLog[k].line = AllReferences[k].line
       /\ captureLog[k].reference = AllReferences[k].reference
       /\ captureLog[k].outcome \in {"fatal", "request"}
  /\ Len(templateFatals) + Len(captured) = Len(captureLog)
  /\ \A f \in 1..Len(templateFatals) :
       \E k \in 1..Len(captureLog) :
         /\ captureLog[k].outcome = "fatal"
         /\ captureLog[k].line = templateFatals[f].line
  /\ capPc # "scan" =>
       /\ Len(captureLog) = Len(AllReferences)
       /\ captured = RequestsOf(AllReferences)


\* ------------------------------------------------- main and CallBackend

Hosts == {<<"h">>}

\* Header lines: one word, two words, three words.
HeaderValues ==
  { <<"a">>,
    <<"a", ":", " ", "b">>,
    <<"c", " ", "d", " ", "e">> }

RECURSIVE HeadersUpTo(_)
HeadersUpTo(n) ==
  IF n = 0 THEN {<<>>}
  ELSE LET shorter == HeadersUpTo(n - 1)
       IN shorter \cup {Append(l, h) : l \in {m \in shorter : Len(m) = n - 1},
                                         h \in HeaderValues}

CallDatas == {[Host |-> h, Headers |-> hs] : h \in Hosts, hs \in HeadersUpTo(MaxHeaders)}

\* The fatals of a resolution that failed: "f1", "f2", ... in order.
FatalLists == {[k \in 1..n |-> <<"f", k>>] : n \in 1..MaxFatals}

\* part_001 line 23: the range over the headers of the httpie template.
RECURSIVE RenderHeaders(_)
RenderHeaders(hs) ==
  IF hs = <<>> THEN <<>>
  ELSE <<" ", DoubleQuote>> \o Head(hs) \o <<DoubleQuote, " ">> \o RenderHeaders(Tail(hs))

\* part_001 lines 23 and 35-46: the httpie template executed on the call data.
getTemplate(cd) ==
  <<"http", " ", "--ignore-stdin", " ">> \o cd.Host \o <<" ">> \o RenderHeaders(cd.Headers)

RECURSIVE SplitFrom(_, _, _)
SplitFrom(s, sep, cur) ==
  IF s = <<>> THEN <<cur>>
  ELSE IF Head(s) = sep THEN <<cur>> \o SplitFrom(Tail(s), sep, <<>>)
  ELSE SplitFrom(Tail(s), sep, Append(cur, Head(s)))

\* strings.Split with a separator of one character.
Split(s, sep) == SplitFrom(s, sep, <<>>)

RECURSIVE UnsplitFrom(_, _, _, _)
UnsplitFrom(tokens, q, joining, acc) ==
  IF tokens = <<>> THEN (IF joining THEN <<acc>> ELSE <<>>)
  ELSE LET t == Head(tokens)
       IN IF joining
          THEN IF HasSuffix(t, <<q>>)
               THEN <<acc \o <<" ">> \o t>> \o UnsplitFrom(Tail(tokens), q, FALSE, <<>>)
               ELSE UnsplitFrom(Tail(tokens), q, TRUE, acc \o <<" ">> \o t)
          ELSE IF HasPrefix(t, <<q>>) /\ ~HasSuffix(t, <<q>>)
               THEN UnsplitFrom(Tail(tokens), q, TRUE, t)
               ELSE <<t>> \o UnsplitFrom(Tail(tokens), q, FALSE, <<>>)

\* utils.UnsplitLineOnSeparator: a token that starts with the quote q and
\* does not end with it is joined with the tokens after it, up to the one
\* that ends with q.
UnsplitLineOnSeparator(tokens, q) == UnsplitFrom(tokens, q, FALSE, <<>>)

\* part_001 lines 46-62: the command, the arguments of the split, and the
\* arguments after the two unsplit passes.
CommandAndArgs(cd) ==
  LET templateOutput == TrimSpace(getTemplate(cd))
      backendCommandAndArgsSlice == Split(templateOutput, " ")
      args == Tail(backendCommandAndArgsSlice)
  IN [command |-> Head(backendCommandAndArgsSlice),
      args |-> args,
      unsplit |-> UnsplitLineOnSeparator(UnsplitLineOnSeparator(args, DoubleQuote),
                                         SingleQuote)]

\* part_001 line 67: exec.CommandContext(backendTimeoutContext, command, args...).
ExecArgs(c) == c.args

ProgramInit ==
  /\ entry \in {"main.go", "part_000"}
  /\ stage = "start"
  /\ callData = NoCallData
  /\ fatals = <<>>
  /\ backendCalls = 0
  /\ processArgs = <<>>
  /\ backendErr = "nil"
  /\ backendExitCode = 0
  /\ backendOutput = <<>>
  /\ stdoutPrinted = <<>>
  /\ stderrPrinted = <<>>
  /\ exitStatus = 0

\* main.go lines 21-35, part_000 lines 31-42 and 49-51:
\* printInternalErrorAndExit before the template is resolved.
ProgramInternalError ==
  /\ stage = "start"
  /\ stderrPrinted' = Append(stderrPrinted, <<"An error occurred: ", "err">>)
  /\ exitStatus' = 1
  /\ stage' = "exited"
  /\ UNCHANGED <<entry, callData, fatals, backendCalls, processArgs, backendErr,
                 backendExitCode, backendOutput, stdoutPrinted>>
  /\ UNCHANGED notProgVars

\* main.go line 40: parse.ParseTemplate returns the call data or fatals.
ProgramParseTemplate ==
  /\ entry = "main.go"
  /\ stage = "start"
  /\ \/ callData' \in CallDatas /\ fatals' = <<>>
     \/ callData' = NoCallData /\ fatals' \in FatalLists
  /\ stage' = "resolved"
  /\ UNCHANGED <<entry, backendCalls, processArgs, backendErr, backendExitCode,
                 backendOutput, stdoutPrinted, stderrPrinted, exitStatus>>
  /\ UNCHANGED notProgVars

\* part_000 line 48: assemble.Assemble returns the call data or one fatal.
ProgramAssemble ==
  /\ entry = "part_000"
  /\ stage = "start"
  /\ \/ callData' \in CallDatas /\ fatals' = <<>>
     \/ callData' = NoCallData /\ fatals' \in {l \in FatalLists : Len(l) = 1}
  /\ stage' = "resolved"
  /\ UNCHANGED <<entry, backendCalls, processArgs, backendErr, backendExitCode,
                 backendOutput, stdoutPrinted, stderrPrinted, exitStatus>>
  /\ UNCHANGED notProgVars

\* Mutant of ProgramFatals: the fatals are printed and main goes on.
ProgramFatalsGoesOn ==
  /\ stage = "resolved"
  /\ fatals # <<>>
  /\ stdoutPrinted' = stdoutPrinted \o fatals
  /\ stage' = "checked"
  /\ UNCHANGED <<entry, callData, fatals, backendCalls, processArgs, backendErr,
                 backendExitCode, backendOutput, stderrPrinted, exitStatus>>
  /\ UNCHANGED notProgVars

\* main.go lines 41-47, part_000 lines 53-56: the fatals are printed and
\* the program exits with status 1.
ProgramFatals ==
  /\ stage = "resolved"
  /\ fatals # <<>>
  /\ stdoutPrinted' = stdoutPrinted \o fatals
  /\ exitStatus' = 1
  /\ stage' = "exited"
  /\ UNCHANGED <<entry, callData, fatals, backendCalls, processArgs, backendErr,
                 backendExitCode, backendOutput, stderrPrinted>>
  /\ UNCHANGED notProgVars

\* main.go line 41, part_000 line 53: there is no fatal.
ProgramNoFatal ==
  /\ stage = "resolved"
  /\ fatals = <<>>
  /\ stage' = "checked"
  /\ UNCHANGED <<entry, callData, fatals, backendCalls, processArgs, backendErr,
                 backendExitCode, backendOutput, stdoutPrinted, stderrPrinted, exitStatus>>
  /\ UNCHANGED notProgVars

\* main.go line 49 and part_001 lines 29-80: CallBackend with the httpie
\* template; the process is run and succeeds or fails.
CallBackendHttpie ==
  /\ entry = "main.go"
  /\ stage = "checked"
  /\ backendCalls' = backendCalls + 1
  /\ processArgs' = ExecArgs(CommandAndArgs(callData))
  /\ \/ backendErr' = "nil" /\ backendOutput' = <<"o">>
     \/ backendErr' = "error" /\ backendOutput' = <<>>
  /\ stage' = "called"
  /\ UNCHANGED <<entry, callData, fatals, backendExitCode, stdoutPrinted, stderrPrinted,
                 exitStatus>>
  /\ UNCHANGED notProgVars

\* part_000 line 58: CallBackend returns the output, a BackedErr with the
\* exit code of the backend, or another error.
CallBackendWithFlags ==
  /\ entry = "part_000"
  /\ stage = "checked"
  /\ backendCalls' = backendCalls + 1
  /\ \/ backendErr' = "nil" /\ backendOutput' = <<"o">> /\ backendExitCode' = 0
     \/ backendErr' = "BackedErr" /\ backendOutput' = <<>> /\ backendExitCode' \in {1, 2}
     \/ backendErr' = "error" /\ backendOutput' = <<>> /\ backendExitCode' = 0
  /\ stage' = "called"
  /\ UNCHANGED <<entry, callData, fatals, processArgs, stdoutPrinted, stderrPrinted,
                 exitStatus>>
  /\ UNCHANGED notProgVars

\* main.go lines 50-53: the error is printed, the program exits with status 1.
ProgramBackendError ==
  /\ entry = "main.go"
  /\ stage = "called"
  /\ backendErr # "nil"
  /\ stdoutPrinted' = Append(stdoutPrinted, <<backendErr>>)
  /\ exitStatus' = 1
  /\ stage' = "exited"
  /\ UNCHANGED <<entry, callData, fatals, backendCalls, processArgs, backendErr,
                 backendExitCode, backendOutput, stderrPrinted>>
  /\ UNCHANGED notProgVars

\* part_000 lines 59-65: the error is printed; it is a BackedErr and the
\* program exits with its exit code.
ProgramBackedErr ==
  /\ entry = "part_000"
  /\ stage = "called"
  /\ backendErr = "BackedErr"
  /\ stderrPrinted' = Append(stderrPrinted, <<backendErr>>)
  /\ exitStatus' = backendExitCode
  /\ stage' = "exited"
  /\ UNCHANGED <<entry, callData, fatals, backendCalls, processArgs, backendErr,
                 backendExitCode, backendOutput, stdoutPrinted>>
  /\ UNCHANGED notProgVars

\* part_000 lines 59-69: the error is printed; it is no BackedErr, so the
\* output is printed and main returns.
ProgramOtherBackendError ==
  /\ entry = "part_000"
  /\ stage = "called"
  /\ backendErr = "error"
  /\ stderrPrinted' = Append(stderrPrinted, <<backendErr>>)
  /\ stdoutPrinted' = Append(stdoutPrinted, backendOutput)
  /\ exitStatus' = 0
  /\ stage' = "exited"
  /\ UNCHANGED <<entry, callData, fatals, backendCalls, processArgs, backendErr,
                 backendExitCode, backendOutput>>
  /\ UNCHANGED notProgVars

\* main.go line 55, part_000 line 68: the output is printed and main returns.
ProgramPrintOutput ==
  /\ stage = "called"
  /\ backendErr = "nil"
  /\ stdoutPrinted' = Append(stdoutPrinted, backendOutput)
  /\ exitStatus' = 0
  /\ stage' = "exited"
  /\ UNCHANGED <<entry, callData, fatals, backendCalls, processArgs, backendErr,
                 backendExitCode, backendOutput, stderrPrinted>>
  /\ UNCHANGED notProgVars

ProgramNext ==
  \/ ProgramInternalError
  \/ ProgramParseTemplate
  \/ ProgramAssemble
  \/ ProgramFatals
  \/ ProgramNoFatal
  \/ CallBackendHttpie
  \/ CallBackendWithFlags
  \/ ProgramBackendError
  \/ ProgramBackedErr
  \/ ProgramOtherBackendError
  \/ ProgramPrintOutput

\* Both mains, on every resolution result and every outcome of the backend.
InitProgram == ProgramInit /\ TokenizeIdle /\ RunIdle /\ CaptureIdle /\ LineIdle

SpecProgram == InitProgram /\ [][ProgramNext]_vars

\* ----------------------------------- properties of main and CallBackend

Exited == stage = "exited"

\* C13: the arguments CallBackend gives the backend process are those of
\* the split after the unsplit passes for the double and the single quote:
\* a quoted header with spaces is one argument.
C13_ProcessGetsUnsplitArgs ==
  (entry = "main.go" /\ backendCalls > 0) =>
    processArgs = CommandAndArgs(callData).unsplit

\* C14: after CallBackend returned an error the program printed it and
\* exits with a status other than 0, the exit code of the error if it has one.
C14_BackendFailureExitsNonZero ==
  (Exited /\ backendCalls > 0 /\ backendErr # "nil") =>
    /\ exitStatus # 0
    /\ backendErr = "BackedErr" => exitStatus = backendExitCode
    /\ \E k \in 1..Len(stdoutPrinted \o stderrPrinted) :
         (stdoutPrinted \o stderrPrinted)[k] = <<backendErr>>

\* C15: CallBackend is never called in a run whose template resolution
\* returned a fatal, and is called only once the resolution is over; a run
\* with fatals prints them all, in order, and exits with status 1.
C15_NoBackendAfterFatal ==
  /\ fatals # <<>> => backendCalls = 0
  /\ backendCalls > 0 => stage \in {"called", "exited"} /\ callData \in CallDatas
  /\ stage \in {"start", "resolved", "checked"} => backendCalls = 0
  /\ (Exited /\ fatals # <<>>) =>
       /\ stdoutPrinted = fatals
       /\ exitStatus = 1

C15_Witness ==
  /\ Exited
  /\ Len(fatals) = 2
  /\ stdoutPrinted = fatals
  /\ exitStatus = 1
  /\ backendCalls = 0


\* ------------------------------- tokenizeEnvVars and tokenizeExecutables

\* Lines 295-304.
unescapeEnvVars(content, hasNextToken) ==
  LET c == ReplaceAll(content, <<Backtick>> \o envVarPrefix, envVarPrefix)
  IN IF hasNextToken /\ HasSuffix(c, EscapedBacktick)
     THEN TrimSuffix(c, EscapedBacktick) \o <<Backtick>>
     ELSE c

Returns(t, f, m) == [called |-> TRUE, tokens |-> t, found |-> f, fatal |-> m]

\* Lines 317-374: the loop from the locals l on, and the return.
RECURSIVE tokenizeEnvVarsFrom(_, _)
tokenizeEnvVarsFrom(l, inputRunes) ==
  IF l.idx < Len(inputRunes)
  THEN LET rest == SliceFrom(inputRunes, l.idx)
           prev == SliceTo(inputRunes, l.idx)
       IN IF ~l.isEnvVar /\ isStartOfToken(envVarPrefix, prev, rest)
          THEN tokenizeEnvVarsFrom(
                 [l EXCEPT !.result = IF Len(l.currentContent) > 0
                                      THEN Append(l.result,
                                                  token(textToken,
                                                        unescapeEnvVars(l.currentContent, TRUE),
                                                        l.currentContent))
                                      ELSE l.result,
                           !.currentContent = <<>>,
                           !.idx = l.idx + Len(envVarPrefix),
                           !.isEnvVar = TRUE,
                           !.hasEnvVarTokens = TRUE], inputRunes)
          ELSE IF l.isEnvVar /\ isStartOfToken(<<"}">>, prev, rest)
          THEN LET replaced == ReplaceAll(l.currentContent, <<Backtick, "}">>, <<"}">>)
                   unescapedContent == IF HasSuffix(replaced, EscapedBacktick)
                                       THEN TrimSuffix(replaced, EscapedBacktick) \o <<Backtick>>
                                       ELSE replaced
               IN tokenizeEnvVarsFrom(
                    [l EXCEPT !.result = Append(l.result,
                                                token(envVarToken, unescapedContent,
                                                      envVarPrefix \o l.currentContent \o <<"}">>)),
                              !.isEnvVar = FALSE,
                              !.currentContent = <<>>,
                              !.idx = l.idx + 1], inputRunes)
          ELSE tokenizeEnvVarsFrom(
                 [l EXCEPT !.currentContent = l.currentContent
                                                \o SubSeq(inputRunes, l.idx + 1, l.idx + 1),
                           !.idx = l.idx + 1], inputRunes)
  ELSE IF l.isEnvVar
  THEN Returns(<<>>, FALSE, <<MissingBracketMsg>> \o envVarPrefix \o l.currentContent)
  ELSE IF Len(l.currentContent) > 0
  THEN Returns(Append(l.result, token(textToken, unescapeEnvVars(l.currentContent, FALSE),
                                      l.currentContent)),
               l.hasEnvVarTokens, <<>>)
  ELSE Returns(l.result, l.hasEnvVarTokens, <<>>)

\* Lines 308-375.
tokenizeEnvVars(inputRunes) ==
  tokenizeEnvVarsFrom([result |-> <<>>, hasEnvVarTokens |-> FALSE, currentContent |-> <<>>,
                       isEnvVar |-> FALSE, idx |-> 0], inputRunes)

\* Mutant of unescapeExecutables: the escaped prefix is left as it is.
unescapeExecutablesKeepsEscape(content, hasNextToken) ==
  IF hasNextToken /\ HasSuffix(content, EscapedBacktick)
  THEN TrimSuffix(content, EscapedBacktick) \o <<Backtick>>
  ELSE content

\* Lines 377-385.
unescapeExecutables(content, hasNextToken) ==
  LET c == ReplaceAll(content, <<Backtick>> \o executablePrefix, executablePrefix)
  IN IF hasNextToken /\ HasSuffix(c, EscapedBacktick)
     THEN TrimSuffix(c, EscapedBacktick) \o <<Backtick>>
     ELSE c

\* Lines 428-429 and 437-438, on the locals of tokenizeExecutables.
executablesUnescapeTillNow(l) ==
  SliceTo(l.currentContent, l.executableQuoteEnd)
    \o ReplaceAll(SliceFrom(l.currentContent, l.executableQuoteEnd),
                  <<Backtick, ")">>, <<")">>)

\* Lines 422-434: the quote switch of tokenizeExecutables.
executablesQuoteSwitch(l, prev, nextRune) ==
  IF nextRune \in {DoubleQuote, SingleQuote}
  THEN IF l.executableQuoteRune = NoRune
       THEN [l EXCEPT !.executableQuoteRune = nextRune,
                      !.currentContent = executablesUnescapeTillNow(l)]
       ELSE IF ~HasSuffix(prev, <<Backslash>>) /\ l.executableQuoteRune = nextRune
       THEN [l EXCEPT !.executableQuoteRune = NoRune,
                      !.executableQuoteEnd = Len(l.currentContent) - 1]
       ELSE l
  ELSE l

\* Lines 436-456: the closing parenthesis of tokenizeExecutables.
executablesClose(l, inputRunes) ==
  LET unescaped == executablesUnescapeTillNow(l)
      content == IF HasSuffix(unescaped, EscapedBacktick)
                 THEN TrimSuffix(unescaped, EscapedBacktick) \o <<Backtick>>
                 ELSE unescaped
  IN [l EXCEPT !.executableQuoteEnd = 0,
               !.result = Append(l.result,
                                 token(executableToken, content,
                                       SubSeq(inputRunes, l.executableStartIdx + 1, l.idx + 1))),
               !.executableStartIdx = -1,
               !.currentContent = <<>>,
               !.idx = l.idx + 1]

\* Lines 399-478: the loop from the locals l on, and the return.
RECURSIVE tokenizeExecutablesFrom(_, _)
tokenizeExecutablesFrom(l, inputRunes) ==
  IF l.idx < Len(inputRunes)
  THEN LET rest == SliceFrom(inputRunes, l.idx)
           prev == SliceTo(inputRunes, l.idx)
           switched == executablesQuoteSwitch(l, prev, Head(rest))
       IN IF l.executableStartIdx = -1 /\ isStartOfToken(executablePrefix, prev, rest)
          THEN tokenizeExecutablesFrom(
                 [l EXCEPT !.result = IF Len(l.currentContent) > 0
                                      THEN Append(l.result,
                                                  token(textToken,
                                                        unescapeExecutables(l.currentContent, TRUE),
                                                        l.currentContent))
                                      ELSE l.result,
                           !.currentContent = <<>>,
                           !.executableStartIdx = l.idx,
                           !.idx = l.idx + Len(envVarPrefix),
                           !.hasExecutableTokens = TRUE], inputRunes)
          ELSE IF l.executableStartIdx >= 0
          THEN IF switched.executableQuoteRune = NoRune /\ isStartOfToken(<<")">>, prev, rest)
               THEN tokenizeExecutablesFrom(executablesClose(switched, inputRunes), inputRunes)
               ELSE tokenizeExecutablesFrom(
                      [switched EXCEPT !.currentContent = switched.currentContent
                                                            \o SubSeq(inputRunes, l.idx + 1, l.idx + 1),
                                       !.idx = l.idx + 1], inputRunes)
          ELSE tokenizeExecutablesFrom(
                 [l EXCEPT !.currentContent = l.currentContent
                                                \o SubSeq(inputRunes, l.idx + 1, l.idx + 1),
                           !.idx = l.idx + 1], inputRunes)
  ELSE IF l.executableStartIdx >= 0
  THEN IF l.executableQuoteRune # NoRune
       THEN Returns(<<>>, FALSE,
                    <<UnterminatedQuoteMsg>> \o SliceFrom(inputRunes, l.executableStartIdx))
       ELSE Returns(<<>>, FALSE, <<MissingParenMsg>> \o SliceFrom(inputRunes, l.executableStartIdx))
  ELSE IF Len(l.currentContent) > 0
  THEN Returns(Append(l.result, token(textToken, unescapeExecutables(l.currentContent, FALSE),
                                      l.currentContent)),
               l.hasExecutableTokens, <<>>)
  ELSE Returns(l.result, l.hasExecutableTokens, <<>>)

\* Lines 387-479.
tokenizeExecutables(inputRunes) ==
  tokenizeExecutablesFrom([result |-> <<>>, hasExecutableTokens |-> FALSE,
                           executableQuoteRune |-> NoRune, executableQuoteEnd |-> 0,
                           executableStartIdx |-> -1, currentContent |-> <<>>, idx |-> 0],
                          inputRunes)

LineInit ==
  /\ sectionLine \in Inputs
  /\ envVarsReturn = NotCalled
  /\ executablesReturn = NotCalled

\* tokenizeEnvVars is called on the line.
CallTokenizeEnvVars ==
  /\ ~envVarsReturn.called
  /\ envVarsReturn' = tokenizeEnvVars(sectionLine)
  /\ UNCHANGED <<sectionLine, executablesReturn>>
  /\ UNCHANGED notLineVars

\* tokenizeExecutables is called on the line.
CallTokenizeExecutables ==
  /\ ~executablesReturn.called
  /\ executablesReturn' = tokenizeExecutables(sectionLine)
  /\ UNCHANGED <<sectionLine, envVarsReturn>>
  /\ UNCHANGED notLineVars

LineNext ==
  \/ CallTokenizeEnvVars
  \/ CallTokenizeExecutables

\* tokenizeEnvVars and tokenizeExecutables on every line of Inputs.
InitLine == LineInit /\ TokenizeIdle /\ RunIdle /\ CaptureIdle /\ ProgramIdle

SpecLine == InitLine /\ [][LineNext]_vars

\* ------------------- properties of tokenizeEnvVars and tokenizeExecutables

Occurs(s, piece) == \E k \in 0..Len(s) : HasPrefix(SliceFrom(s, k), piece)

\* What the function returned agrees with what Tokenize returns under the
\* ceiling: the same tokens when Tokenize succeeds, the same fatal when it
\* fails.
AgreesWithTokenize(returned, inputRunes, ceiling) ==
  LET t == Tokenize(inputRunes, ceiling)
  IN IF t.fatal = <<>>
     THEN returned.fatal = <<>> /\ returned.tokens = t.result
     ELSE returned.fatal = t.fatal

\* C16: on a line without # tokenizeExecutables agrees with Tokenize under
\* the ceiling executableToken, and on a line without # and without $(
\* tokenizeEnvVars agrees with Tokenize under the ceiling envVarToken: the
\* same token kinds, contents and raw contents on success, the same fatal
\* on failure.
C16_RestrictedAgreeWithTokenize ==
  /\ (executablesReturn.called /\ ~Occurs(sectionLine, commentPrefix)) =>
       AgreesWithTokenize(executablesReturn, sectionLine, executableToken)
  /\ (envVarsReturn.called /\ ~Occurs(sectionLine, commentPrefix)
        /\ ~Occurs(sectionLine, executablePrefix)) =>
       AgreesWithTokenize(envVarsReturn, sectionLine, envVarToken)

\* Both functions were called on the line ${a}: an EnvVar token for the
\* one, a Text token for the other.
C16_Witness ==
  /\ sectionLine = <<"$", "{", "a", "}">>
  /\ envVarsReturn.called
  /\ envVarsReturn.found
  /\ envVarsReturn.tokens = <<token(envVarToken, <<"a">>, sectionLine)>>
  /\ executablesReturn.called
  /\ ~executablesReturn.found
  /\ executablesReturn.tokens = <<token(textToken, sectionLine, sectionLine)>>


\* ------------------------------------------ more properties of the lexer

\* An unescaped comment prefix at offset k of the line.
UnescapedCommentAt(k) ==
  isStartOfToken(commentPrefix, SliceTo(input, k), SliceFrom(input, k))

\* C17: Tokenize recognises no token kind above its ceiling.  Under the
\* ceiling textToken there is no EnvVar, Executable or Error token and no
\* fatal; under executableToken there is no EnvVar token, and a line without
\* $( is lexed as under textToken, whatever ${ it has.  The comment is
\* recognised under every ceiling: a line that opens no reference has a
\* Comment token exactly when it has an unescaped #.
C17_CeilingRespected ==
  /\ \A i \in 1..Len(result) :
       /\ result[i].tokenType = envVarToken => allowedToken >= envVarToken
       /\ result[i].tokenType = executableToken => allowedToken >= executableToken
  /\ allowedToken = textToken =>
       /\ fatal = <<>>
       /\ ~HasTokenOfType(errorToken)
       /\ currentTokenType \in {textToken, commentToken}
  /\ allowedToken = executableToken => currentTokenType # envVarToken
  /\ (Returned /\ allowedToken = executableToken /\ ~Occurs(input, executablePrefix)) =>
       /\ result = Tokenize(input, textToken).result
       /\ fatal = <<>>
  /\ (Returned /\ (allowedToken = textToken \/ ~Occurs(input, <<"$">>))) =>
       (HasTokenOfType(commentToken)
          <=> \E k \in 0..(Len(input) - 1) : UnescapedCommentAt(k))

\* Under the ceiling textToken the line ${# is a Text token and a comment.
C17_Witness ==
  /\ Returned
  /\ allowedToken = textToken
  /\ input = <<"$", "{", "#">>
  /\ result = <<token(textToken, envVarPrefix, envVarPrefix),
                token(commentToken, <<>>, <<"#">>)>>

\* Under the ceiling executableToken the line ${a} is one Text token.
C17_WitnessExecutable ==
  /\ Returned
  /\ allowedToken = executableToken
  /\ input = <<"$", "{", "a", "}">>
  /\ result = <<token(textToken, input, input)>>

\* C20: the token list Tokenize returns is well-formed: an Error token is
\* the last token, and there is one exactly when the fatal is not empty; no
\* Text token has an empty raw content; no two Text tokens are adjacent.
C20_WellFormed ==
  /\ \A i \in 1..Len(result) :
       /\ result[i].tokenType = errorToken => i = Len(result)
       /\ result[i].tokenType = textToken => result[i].fatalContent # <<>>
       /\ (i > 1 /\ result[i].tokenType = textToken) => result[i - 1].tokenType # textToken
  /\ Returned => (HasTokenOfType(errorToken) <=> fatal # <<>>)

\* A Text token before the Error token of an unclosed EnvVar.
C20_Witness ==
  /\ Returned
  /\ Len(result) = 2
  /\ result[1].tokenType = textToken
  /\ result[2].tokenType = errorToken
  /\ fatal # <<>>


\* ------------------------------------- more properties of callExecutables

\* callExecutables is over: it returned, or the program panicked.
CallOver == mainPc \in {"returned", "panic"}

\* C18: in one call the process of a request is never started twice, and
\* when the call is over every request had its process started once and
\* its own result recorded, whatever became of the other requests.
C18_EveryRequestSpawnedOnce ==
  /\ \A t \in Tasks : spawns[t] <= 1
  /\ CallOver => \A t \in Tasks : spawns[t] = 1 /\ Recorded(t)

\* C19: the counter of the WaitGroup is never below zero, and a goroutine
\* has called wg.Done only after the launching loop called wg.Add(1) for it.
C19_DoneAfterAdd ==
  /\ wgCounter >= 0
  /\ \A t \in Tasks : taskPc[t] = "done" => loopIndex >= t


\* ------------------------------------- callExecutables, fairly scheduled

\* The steps the scheduler and the timers take by themselves: every step
\* but a process ending on its own, which a process may never do.
RunScheduled ==
  \/ MainGo
  \/ MainAdd
  \/ MainWait
  \/ \E t \in Tasks : TaskRun(t)
  \/ \E t \in Tasks : DeadlineExceeded(t)
  \/ \E t \in Tasks : ProcessKilled(t)
  \/ \E t \in Tasks : TaskRecord(t)
  \/ \E t \in Tasks : TaskDone(t)

\* callExecutables with goroutines that are scheduled, deadlines that pass
\* and killed processes that end; a process need not end by itself.
SpecRunFair == InitRun /\ [][RunNext]_vars /\ WF_vars(RunScheduled)

\* C21: with a timeout configured callExecutables eventually returns,
\* whatever the request list and even when a process never ends by itself.
C21_EventuallyReturns == (timeout # TimeoutNotSet) => <>HasReturned

====
